---- MODULE Spec2Model ----
(***************************************************************************)
(* Model of the update loop of xtop (src/main.go): the bubbletea model     *)
(* (sort directive, stored systemStats, table rows and dimensions), the    *)
(* message handler model.Update, the row derivation model.updateTable,     *)
(* the ingestion getProcessInfo, and the commands tickCmd / updateStats    *)
(* that run outside the loop and report back with a message.               *)
(*                                                                         *)
(* Strings whose content matters (names, users, table cells) are sequences *)
(* of byte codes, compared bytewise as Go compares strings.  Percentages   *)
(* are fixed-point integers in hundredths of a percent; "%.1f" is the      *)
(* rounding of such a value to tenths.                                     *)
(***************************************************************************)
EXTENDS Integers, Sequences, FiniteSets, TLC

\* ------------------------------------------------------------------------
\* Bounds of the model
\* ------------------------------------------------------------------------

\* Number of named processes in the large sample (more than the row cap).
NumBig == 52

\* Most sampling commands outstanding at once that the model explores.
MaxInFlight == 2

\* ------------------------------------------------------------------------
\* Program constants
\* ------------------------------------------------------------------------

\* main.go:254  if len(rows) >= 50
MaxRows == 50

\* main.go:260  if len(command) > 28
MaxCommand == 28

\* main.go:174  if len(info.User) > 8
MaxUser == 8

\* main.go:80  table.WithHeight(15)
InitialHeight == 15

\* main.go:215  msg.Width - 4
WidthMargin == 4

\* main.go:216  msg.Height - 12
HeightMargin == 12

\* byte codes used in table cells
Dot == 46
Minus == 45
Zero == 48

Min(a, b) == IF a < b THEN a ELSE b

\* ------------------------------------------------------------------------
\* Strings as byte sequences
\* ------------------------------------------------------------------------

\* Go's < on strings: bytewise lexicographic, a proper prefix is smaller.
RECURSIVE StrLess(_, _)
StrLess(a, b) ==
    IF b = << >> THEN FALSE
    ELSE IF a = << >> THEN TRUE
    ELSE IF Head(a) < Head(b) THEN TRUE
    ELSE IF Head(a) > Head(b) THEN FALSE
    ELSE StrLess(Tail(a), Tail(b))

\* strconv.Itoa for a non-negative value: its decimal digits.
RECURSIVE Digits(_)
Digits(n) ==
    IF n < 10 THEN << Zero + n >>
    ELSE Append(Digits(n \div 10), Zero + (n % 10))

\* main.go:265  strconv.Itoa(int(proc.PID))
Itoa(n) == IF n < 0 THEN << Minus >> \o Digits(0 - n) ELSE Digits(n)

\* main.go:267-268  fmt.Sprintf("%.1f", v): v in hundredths, rounded to the
\* nearest tenth (a tie goes to the even tenth), printed as int "." digit.
RoundTenths(v) ==
    LET q == v \div 10
        r == v % 10
    IN  IF r > 5 \/ (r = 5 /\ q % 2 = 1) THEN q + 1 ELSE q

FormatTenths(v) ==
    LET t == RoundTenths(v)
    IN  Itoa(t \div 10) \o << Dot, Zero + (t % 10) >>

\* ------------------------------------------------------------------------
\* Ingestion: getProcessInfo
\* ------------------------------------------------------------------------

\* LimitUser leaving the user name as it is
LimitUserNone(u) == u

\* main.go:174-176  the user name is cut to its first 8 bytes
LimitUser(u) == IF Len(u) > MaxUser THEN SubSeq(u, 1, MaxUser) ELSE u

\* main.go:164-176  the ProcessInfo built for one process
MakeInfo(p) ==
    [PID |-> p.pid, Name |-> p.name, CPUPerc |-> p.cpu, MemPerc |-> p.mem,
     Status |-> p.status, User |-> LimitUser(p.user)]

\* getProcessInfo without the test of the name
getProcessInfoKeepUnnamed(processes) ==
    [i \in 1..Len(processes) |-> MakeInfo(processes[i])]

\* main.go:146-182  processes without a name are skipped, order is kept
getProcessInfo(processes) ==
    LET named == SelectSeq(processes,
                           LAMBDA p : ~p.isNil /\ p.name # << >>)
    IN  [i \in 1..Len(named) |-> MakeInfo(named[i])]

\* ------------------------------------------------------------------------
\* Row derivation: updateTable
\* ------------------------------------------------------------------------

\* Less with the direction of the cpu order ignored
LessCpuOneWay(by, asc, a, b) ==
    CASE by = "cpu"    -> a.CPUPerc > b.CPUPerc
      [] by = "memory" -> IF asc THEN a.MemPerc < b.MemPerc
                                 ELSE a.MemPerc > b.MemPerc
      [] by = "pid"    -> IF asc THEN a.PID < b.PID ELSE a.PID > b.PID
      [] by = "name"   -> IF asc THEN StrLess(a.Name, b.Name)
                                 ELSE StrLess(b.Name, a.Name)
      [] OTHER         -> FALSE

\* main.go:225-249  the comparator handed to sort.Slice
Less(by, asc, a, b) ==
    CASE by = "cpu"    -> IF asc THEN a.CPUPerc < b.CPUPerc
                                 ELSE a.CPUPerc > b.CPUPerc
      [] by = "memory" -> IF asc THEN a.MemPerc < b.MemPerc
                                 ELSE a.MemPerc > b.MemPerc
      [] by = "pid"    -> IF asc THEN a.PID < b.PID ELSE a.PID > b.PID
      [] by = "name"   -> IF asc THEN StrLess(a.Name, b.Name)
                                 ELSE StrLess(b.Name, a.Name)
      [] OTHER         -> FALSE

\* sort.Slice, inner loop of the insertion sort: data[j] moves left while it
\* is less than its left neighbour.
RECURSIVE SiftLeft(_, _, _, _)
SiftLeft(by, asc, data, j) ==
    IF j > 1 /\ Less(by, asc, data[j], data[j - 1])
    THEN SiftLeft(by, asc,
                  [data EXCEPT ![j] = data[j - 1], ![j - 1] = data[j]], j - 1)
    ELSE data

RECURSIVE InsertFrom(_, _, _, _)
InsertFrom(by, asc, data, i) ==
    IF i > Len(data) THEN data
    ELSE InsertFrom(by, asc, SiftLeft(by, asc, data, i), i + 1)

\* main.go:225  sort.Slice(m.stats.processInfo, less).  Go sorts a slice of
\* at most 12 elements by this insertion sort; a longer slice is sorted by a
\* different algorithm whose result is the same whenever no two elements
\* compare equal, which is the case for the one long sample of the model.
SortSlice(by, asc, data) == InsertFrom(by, asc, data, 2)

\* Command cutting a name of exactly 28 bytes too
CommandOffByOne(name) ==
    IF Len(name) >= MaxCommand
    THEN SubSeq(name, 1, MaxCommand) \o << Dot, Dot >>
    ELSE name

\* main.go:259-262  the command cell
Command(name) ==
    IF Len(name) > MaxCommand
    THEN SubSeq(name, 1, MaxCommand) \o << Dot, Dot >>
    ELSE name

\* main.go:264-271  one table.Row
MakeRow(proc) ==
    << Itoa(proc.PID), proc.User, FormatTenths(proc.CPUPerc),
       FormatTenths(proc.MemPerc), proc.Status, Command(proc.Name) >>

\* BuildRows with the cap tested after the append instead of before it
BuildRowsOffByOne(infos) ==
    [i \in 1..Min(MaxRows + 1, Len(infos)) |-> MakeRow(infos[i])]

\* main.go:252-272  the loop stops appending once 50 rows exist
BuildRows(infos) ==
    [i \in 1..Min(MaxRows, Len(infos)) |-> MakeRow(infos[i])]

\* main.go:225-249  the first half of updateTable: the processInfo of the
\* stats is sorted in place
sortProcessInfo(by, asc, st) ==
    [st EXCEPT !.processInfo = SortSlice(by, asc, st.processInfo)]

\* ------------------------------------------------------------------------
\* The metrics provider: what one sampling pass can observe
\* ------------------------------------------------------------------------

Proc(pid, name, cpu, mem, status, user) ==
    [isNil |-> FALSE, pid |-> pid, name |-> name, cpu |-> cpu, mem |-> mem,
     status |-> status, user |-> user]

\* a name of 29 bytes, one more than the command cell keeps
LongName == [i \in 1..(MaxCommand + 1) |-> 97 + (i % 3)]

\* a user name of 10 bytes, two more than ingestion keeps
LongUser == << 100, 101, 112, 108, 111, 121, 109, 101, 110, 116 >>

Root == << 114, 111, 111, 116 >>

\* a name of exactly 28 bytes and a user name of exactly 8 bytes
FullName == [i \in 1..MaxCommand |-> 107 + (i % 2)]

FullUser == [i \in 1..MaxUser |-> 117 + (i % 2)]

\* A handful of processes with equal keys, an unnamed process, a long name
\* and a long user name.
SmallProcs ==
    << Proc(1,  << 97 >>,     1000, 250, "S", Root),
       Proc(2,  << 98 >>,     9000, 125, "R", LongUser),
       Proc(3,  << >>,        5000, 300, "Z", Root),
       Proc(10, LongName,     1000, 250, "S", Root),
       Proc(4,  << 97, 98 >>, 1004, 0,   "S", << >>) >>

\* NumBig named processes whose four keys are pairwise different, followed
\* by one unnamed process.
BigProcs ==
    [i \in 1..NumBig |->
        Proc(100 + i, << 97 + (i % 26), 97 + (i \div 26) >>,
             ((i * 37) % 101) * 10, ((i * 53) % 103) * 10, "S", Root)]
    \o << Proc(99, << >>, 7000, 100, "R", Root) >>

\* main.go:114  stats := systemStats{}
EmptyStats ==
    [uptime |-> 0, loadAvg |-> << >>, cpuPercent |-> << >>,
     memStats |-> << >>, processes |-> << >>, processInfo |-> << >>]

\* What the provider can return to one pass: each of the five lookups either
\* fails (the field keeps its zero value) or yields a value.
Observation(uptime, loadAvg, cpuPercent, memStats, procsOk, procs) ==
    [uptime |-> uptime, loadAvg |-> loadAvg, cpuPercent |-> cpuPercent,
     memStats |-> memStats, procsOk |-> procsOk, procs |-> procs]

\* every lookup fails
Failed == Observation(0, << >>, << >>, << >>, FALSE, << >>)

Few == Observation(3600, << 10, 20, 30 >>, << 500, 9900 >>, << 4, 8, 50 >>,
                   TRUE, SmallProcs)

\* a later pass on the same host: pid 1 is another process now, the load
\* average is unavailable
Fewer == Observation(3660, << >>, << 2500 >>, << 5, 8, 62 >>, TRUE,
                     << Proc(7, << 122 >>,     0,    40, "R", Root),
                        Proc(1, << 98, 97 >>, 333, 1250, "S", LongUser),
                        Proc(28, FullName,     50,   10, "S", FullUser) >>)

\* the pass of three processes with cpu 10, 90 and 50, the last one unnamed
Trio == Observation(3720, << >>, << >>, << >>, TRUE,
                    << Proc(1, << 97 >>, 1000, 0, "S", Root),
                       Proc(2, << 98 >>, 9000, 0, "R", Root),
                       Proc(3, << >>,    5000, 0, "S", Root) >>)

Many == Observation(7200, << >>, << 100 >>, << 6, 8, 75 >>, TRUE, BigProcs)

\* The passes possible on a host with a handful of processes, and on a host
\* with more processes than the table shows.
Observations(h) ==
    IF h = "small" THEN { Failed, Few, Fewer, Trio } ELSE { Failed, Many }

AllObservations == { Failed, Few, Fewer, Trio, Many }

\* main.go:112-144  the body of the command returned by updateStats
updateStatsResult(o) ==
    [uptime      |-> o.uptime,
     loadAvg     |-> o.loadAvg,
     cpuPercent  |-> o.cpuPercent,
     memStats    |-> o.memStats,
     processes   |-> IF o.procsOk THEN o.procs ELSE << >>,
     processInfo |-> IF o.procsOk THEN getProcessInfo(o.procs) ELSE << >>]

\* ------------------------------------------------------------------------
\* Messages and the sort directive
\* ------------------------------------------------------------------------

QuitKeys == { "q", "ctrl+c" }
SortKeys == { "c", "m", "p", "n" }
OtherKeys == { "x" }
Keys == QuitKeys \cup SortKeys \cup OtherKeys

\* tea.WindowSizeMsg values the terminal reports
WindowSizes == { [Width |-> 80, Height |-> 24], [Width |-> 3, Height |-> 10] }

\* KeySort flipping the direction only when the criterion stays the same
KeySortToggleSame(by, asc, key) ==
    LET crit == CASE key = "c" -> "cpu"
                  [] key = "m" -> "memory"
                  [] key = "p" -> "pid"
                  [] key = "n" -> "name"
                  [] OTHER     -> by
    IN  [sortBy |-> crit,
         ascending |-> IF key \in { "c", "m", "p", "n" } /\ crit = by
                       THEN ~asc ELSE asc]

\* KeySort switching a sort key to ascending instead of flipping
KeySortSetAscending(by, asc, key) ==
    CASE key = "c" -> [sortBy |-> "cpu",    ascending |-> TRUE]
      [] key = "m" -> [sortBy |-> "memory", ascending |-> TRUE]
      [] key = "p" -> [sortBy |-> "pid",    ascending |-> TRUE]
      [] key = "n" -> [sortBy |-> "name",   ascending |-> TRUE]
      [] OTHER     -> [sortBy |-> by,       ascending |-> asc]

\* main.go:192-203  the effect of a key on (sortBy, ascending)
KeySort(by, asc, key) ==
    CASE key = "c" -> [sortBy |-> "cpu",    ascending |-> ~asc]
      [] key = "m" -> [sortBy |-> "memory", ascending |-> ~asc]
      [] key = "p" -> [sortBy |-> "pid",    ascending |-> ~asc]
      [] key = "n" -> [sortBy |-> "name",   ascending |-> ~asc]
      [] OTHER     -> [sortBy |-> by,       ascending |-> asc]

\* SetStats keeping the previous value of a field the new message lacks
SetStatsMerge(old, msg) ==
    [uptime      |-> IF msg.uptime = 0 THEN old.uptime ELSE msg.uptime,
     loadAvg     |-> IF msg.loadAvg = << >> THEN old.loadAvg ELSE msg.loadAvg,
     cpuPercent  |-> IF msg.cpuPercent = << >> THEN old.cpuPercent
                     ELSE msg.cpuPercent,
     memStats    |-> IF msg.memStats = << >> THEN old.memStats
                     ELSE msg.memStats,
     processes   |-> IF msg.processes = << >> THEN old.processes
                     ELSE msg.processes,
     processInfo |-> IF msg.processInfo = << >> THEN old.processInfo
                     ELSE msg.processInfo]

\* main.go:211  m.stats = msg
SetStats(old, msg) == msg

\* ------------------------------------------------------------------------
\* State
\* ------------------------------------------------------------------------

VARIABLES
    sortBy,       \* model.sortBy
    ascending,    \* model.ascending
    stats,        \* model.stats
    rows,         \* rows of model.table
    tableWidth,   \* width of model.table
    tableHeight,  \* height of model.table
    ticks,        \* tick timers scheduled and not yet handled
    inflight,     \* sampling commands issued and not yet handled, oldest first
    pc,           \* "running", "quitting" (tea.Quit issued), "done"
    host          \* the machine observed: "small" or "large"

vars == << sortBy, ascending, stats, rows, tableWidth, tableHeight,
           ticks, inflight, pc, host >>

model == << sortBy, ascending, stats, rows, tableWidth, tableHeight >>

\* main.go:112-113  a sampling command just issued; overtaken becomes true
\* when the message of a command issued after it is handled before its own
Issued == [overtaken |-> FALSE]

\* main.go:67-100 initialModel, main.go:102-104 Init, main.go:356-358 main
Start ==
    /\ sortBy = "cpu"
    /\ ascending = FALSE
    /\ stats = EmptyStats
    /\ rows = << >>
    /\ tableWidth = 0
    /\ tableHeight = InitialHeight
    /\ ticks = 1
    /\ inflight = << Issued >>
    /\ pc = "running"

Init == Start /\ host = "small"

InitLarge == Start /\ host = "large"

\* Looping for a loop that goes on taking messages after the quit message
LoopingForever == TRUE

\* the loop takes messages until it has received the quit message
Looping == pc # "done"

\* ------------------------------------------------------------------------
\* model.Update, one action per kind of message
\* ------------------------------------------------------------------------

\* main.go:188-204, 219-220  tea.KeyMsg
HandleKey(key) ==
    /\ Looping
    /\ IF key \in QuitKeys
       THEN /\ pc' = "quitting"
            /\ UNCHANGED << sortBy, ascending >>
       ELSE /\ sortBy' = KeySort(sortBy, ascending, key).sortBy
            /\ ascending' = KeySort(sortBy, ascending, key).ascending
            /\ UNCHANGED pc
    /\ UNCHANGED << stats, rows, tableWidth, tableHeight, ticks, inflight,
                   host >>

\* HandleTick returning the sampling command alone, without the next tick
HandleTickNoReschedule ==
    /\ Looping
    /\ ticks > 0
    /\ Len(inflight) < MaxInFlight
    /\ ticks' = ticks - 1
    /\ inflight' = Append(inflight, Issued)
    /\ UNCHANGED << model, pc, host >>

\* HandleTick putting the directive back to its initial value
HandleTickReset ==
    /\ Looping
    /\ ticks > 0
    /\ Len(inflight) < MaxInFlight
    /\ ticks' = (ticks - 1) + 1
    /\ inflight' = Append(inflight, Issued)
    /\ sortBy' = "cpu"
    /\ ascending' = FALSE
    /\ UNCHANGED << stats, rows, tableWidth, tableHeight, pc, host >>

\* main.go:206-208  tickMsg: the next tick and a new sampling command
HandleTick ==
    /\ Looping
    /\ ticks > 0
    /\ Len(inflight) < MaxInFlight
    /\ ticks' = (ticks - 1) + 1
    /\ inflight' = Append(inflight, Issued)
    /\ UNCHANGED << model, pc, host >>

\* updateTable sorting by the directive the model started with
updateTableInitialDirective(st) ==
    /\ stats' = sortProcessInfo("cpu", FALSE, st)
    /\ rows' = BuildRows(stats'.processInfo)

\* updateTable cutting the list to 50 before sorting it
updateTableCapFirst(st) ==
    /\ stats' = sortProcessInfo(sortBy, ascending, st)
    /\ rows' = BuildRows(SortSlice(sortBy, ascending,
                   SubSeq(st.processInfo, 1,
                          Min(MaxRows, Len(st.processInfo)))))

\* main.go:223-275  updateTable on the model whose stats are st: the process
\* list is sorted in place and its first rows go to m.table.SetRows
updateTable(st) ==
    /\ stats' = sortProcessInfo(sortBy, ascending, st)
    /\ rows' = BuildRows(stats'.processInfo)

\* the commands left once command i has delivered its message
Remaining(cmds, i) ==
    [k \in 1..(Len(cmds) - 1) |->
        IF k < i THEN [overtaken |-> TRUE] ELSE cmds[k + 1]]

\* HandleStats returning a tick command as well
HandleStatsSchedulesTick(i, o) ==
    /\ Looping
    /\ i \in 1..Len(inflight)
    /\ o \in Observations(host)
    /\ inflight' = Remaining(inflight, i)
    /\ ticks' = ticks + 1
    /\ UNCHANGED << sortBy, ascending, tableWidth, tableHeight, pc, host >>
    /\ updateTable(SetStats(stats, updateStatsResult(o)))

\* main.go:112-144, 210-212, 219-220  systemStats: command i finishes its
\* pass, having observed o, and its message is handled
HandleStats(i, o) ==
    /\ Looping
    /\ i \in 1..Len(inflight)
    /\ o \in Observations(host)
    /\ inflight' = Remaining(inflight, i)
    /\ UNCHANGED << sortBy, ascending, tableWidth, tableHeight, ticks, pc,
                   host >>
    /\ updateTable(SetStats(stats, updateStatsResult(o)))

\* HandleResize waiting until no sampling command is outstanding
HandleResizeBlocked(size) ==
    /\ Looping
    /\ inflight = << >>
    /\ tableWidth' = size.Width - WidthMargin
    /\ tableHeight' = size.Height - HeightMargin
    /\ UNCHANGED << sortBy, ascending, stats, rows, ticks, inflight, pc,
                   host >>

\* HandleResize deriving the rows again
HandleResizeRefresh(size) ==
    /\ Looping
    /\ tableWidth' = size.Width - WidthMargin
    /\ tableHeight' = size.Height - HeightMargin
    /\ updateTable(stats)
    /\ UNCHANGED << sortBy, ascending, ticks, inflight, pc, host >>

\* main.go:214-217, 219-220  tea.WindowSizeMsg
HandleResize(size) ==
    /\ Looping
    /\ tableWidth' = size.Width - WidthMargin
    /\ tableHeight' = size.Height - HeightMargin
    /\ UNCHANGED << sortBy, ascending, stats, rows, ticks, inflight, pc,
                   host >>

\* main.go:191, 357-358  the quit message issued by tea.Quit reaches the
\* loop and p.Run returns
HandleQuit ==
    /\ pc = "quitting"
    /\ pc' = "done"
    /\ UNCHANGED << model, ticks, inflight, host >>

Next ==
    \/ \E key \in Keys : HandleKey(key)
    \/ HandleTick
    \/ \E i \in 1..MaxInFlight, o \in AllObservations : HandleStats(i, o)
    \/ \E size \in WindowSizes : HandleResize(size)
    \/ HandleQuit

Spec == Init /\ [][Next]_vars

SpecLarge == InitLarge /\ [][Next]_vars

\* The scheduling the runtime gives: a timer that was set fires and its
\* message is taken, every sampling command returns and its message is
\* taken (senders on the message channel are served in turn), and so is the
\* quit message.
Fairness ==
    /\ WF_vars(HandleTick)
    /\ \A i \in 1..MaxInFlight :
          WF_vars(\E o \in AllObservations : HandleStats(i, o))
    /\ WF_vars(HandleQuit)

FairSpec == Init /\ [][Next]_vars /\ Fairness

\* ------------------------------------------------------------------------
\* Vocabulary of the properties
\* ------------------------------------------------------------------------

\* the criterion each sort key selects
Criterion(key) ==
    CASE key = "c" -> "cpu"
      [] key = "m" -> "memory"
      [] key = "p" -> "pid"
      [] key = "n" -> "name"

\* a <= b for byte strings: equal up to some k, then a ends or is smaller
LexLeq(a, b) ==
    \E k \in 0..Min(Len(a), Len(b)) :
        /\ \A i \in 1..k : a[i] = b[i]
        /\ \/ k = Len(a)
           \/ k < Len(b) /\ a[k + 1] < b[k + 1]

\* the sort key of a is at most that of b, on ingested processes
KeyLeq(by, a, b) ==
    CASE by = "cpu"    -> a.CPUPerc <= b.CPUPerc
      [] by = "memory" -> a.MemPerc <= b.MemPerc
      [] by = "pid"    -> a.PID <= b.PID
      [] by = "name"   -> LexLeq(a.Name, b.Name)

\* a may stand before b in a list ordered by the directive
InOrder(by, asc, a, b) == IF asc THEN KeyLeq(by, a, b) ELSE KeyLeq(by, b, a)

\* the first n entries of infos are monotone under the directive
Monotone(by, asc, infos, n) ==
    \A i \in 1..(n - 1) : InOrder(by, asc, infos[i], infos[i + 1])

\* row r shows process p
Shows(r, p) == r[1] = Itoa(p.PID)

\* the rows a derivation from st under the directive yields
deriveRows(by, asc, st) == BuildRows(SortSlice(by, asc, st.processInfo))

SortKeyStep == \E key \in SortKeys : HandleKey(key)

StatsStep == \E i \in 1..MaxInFlight, o \in AllObservations : HandleStats(i, o)

\* a step that handles the message of a sampling command: the only step
\* after which fewer commands are outstanding
StatsHandled == Len(inflight') = Len(inflight) - 1

\* the processes of a pass that have a name
Named(procs) == { k \in 1..Len(procs) : procs[k].name # << >> }

\* ------------------------------------------------------------------------
\* Properties
\* ------------------------------------------------------------------------

\* C1: when a sort key (c, m, p, n) is handled, the rows of the table are
\* afterwards the rows derived from the stored stats under the new
\* directive.
C1_KeyRederivesRows ==
    [][SortKeyStep => rows' = deriveRows(sortBy', ascending', stats')]_vars

\* C2: when a systemStats message is handled, the rows are afterwards
\* monotone under the directive in force: row i shows the i-th process of
\* the sorted list, and adjacent processes have non-decreasing keys when
\* ascending and non-increasing keys when descending, for cpu, memory, pid
\* and name.
C2_RowsMonotoneAfterStats ==
    [][StatsStep =>
        /\ Len(rows') <= Len(stats'.processInfo)
        /\ \A i \in 1..Len(rows') : Shows(rows'[i], stats'.processInfo[i])
        /\ Monotone(sortBy', ascending', stats'.processInfo, Len(rows'))
      ]_vars

\* C2 witness: rows derived under name ascending, with rows whose keys tie
\* under cpu, whose order differs from the order of ingestion
C2_Witness ==
    /\ sortBy = "name" /\ ascending
    /\ Len(rows) = 4
    /\ \A i \in 1..4 : Shows(rows[i], stats.processInfo[i])
    /\ Monotone("name", TRUE, stats.processInfo, 4)
    /\ stats.processInfo[2].PID = 4

\* C3: in every state the number of rows is the smaller of 50 and the
\* number of named processes of the stored stats; never more than 50.
C3_RowCount ==
    /\ Len(rows) = Min(50, Cardinality(Named(stats.processes)))
    /\ Len(rows) <= 50

\* C3 witness: a pass with more than 50 named processes is stored and the
\* table holds exactly 50 rows
C3_Witness ==
    /\ Cardinality(Named(stats.processes)) > 50
    /\ Len(rows) = 50

\* C4: when the message of a pass with more than 50 named processes is
\* handled, 50 of them are shown and no process left out of the rows comes
\* strictly before a shown one under the directive in force.
C4_TopFifty ==
    [][(StatsHandled /\ Cardinality(Named(stats'.processes)) > 50) =>
          LET procs == stats'.processes
              infos == [k \in Named(procs) |-> MakeInfo(procs[k])]
              cells == { rows'[r][1] : r \in 1..Len(rows') }
              shown == { k \in Named(procs) : Itoa(procs[k].pid) \in cells }
          IN  /\ Len(rows') = 50
              /\ Cardinality(shown) = 50
              /\ \A h \in Named(procs) \ shown : \A k \in shown :
                    InOrder(sortBy', ascending', infos[k], infos[h])
      ]_vars

\* C4 witness: 50 rows derived under memory ascending from a longer list,
\* the first row showing the process with the least memory share
C4_Witness ==
    /\ sortBy = "memory" /\ ascending
    /\ Len(rows) = 50 /\ Len(stats.processInfo) > 50
    /\ \A i \in 1..50 : Shows(rows[i], stats.processInfo[i])
    /\ \A k \in 1..Len(stats.processInfo) :
          stats.processInfo[1].MemPerc <= stats.processInfo[k].MemPerc

\* C5: handling c, m, p or n sets the criterion to cpu, memory, pid or name
\* and flips ascending, whether or not the criterion changes.
C5_KeySetsAndFlips ==
    [][\A key \in SortKeys :
        HandleKey(key) =>
          /\ sortBy' = Criterion(key)
          /\ ascending' = ~ascending
      ]_vars

\* C5 witness: the criterion has changed and the direction has flipped
C5_Witness == sortBy = "memory" /\ ascending /\ rows # << >>

\* C6: in every reachable state, pressing the same sort key twice in a row
\* brings ascending back to its value before the first press, and the
\* criterion is the key's criterion after the first press and after the
\* second.
C6_ToggleLaw ==
    \A key \in SortKeys :
        LET once  == KeySort(sortBy, ascending, key)
            twice == KeySort(once.sortBy, once.ascending, key)
        IN  /\ once.sortBy = Criterion(key)
            /\ once.ascending # ascending
            /\ twice.sortBy = Criterion(key)
            /\ twice.ascending = ascending

\* C6 witness: n has been pressed an even number of times in a row from the
\* initial directive, over rows derived meanwhile
C6_Witness == sortBy = "name" /\ ~ascending /\ Len(rows) = 2

\* C7: handling a window size leaves the stats, the directive and the rows
\* as they are and sets the table to the size less its margins; nothing
\* else changes either.
C7_ResizeFrame ==
    [][\A size \in WindowSizes :
        HandleResize(size) =>
          /\ UNCHANGED << stats, sortBy, ascending, rows >>
          /\ UNCHANGED << ticks, inflight, pc >>
          /\ tableWidth' = size.Width - 4
          /\ tableHeight' = size.Height - 12
      ]_vars

\* C7 witness: the table has been resized while it shows rows derived under
\* a directive that has changed since
C7_Witness ==
    /\ tableWidth = 76 /\ tableHeight = 12
    /\ Len(rows) = 4
    /\ rows # deriveRows(sortBy, ascending, stats)

\* C8: the directive starts as cpu descending, and it changes only in a
\* step that handles c, m, p or n: a tick, a systemStats message, a window
\* size, a quit key or another key leaves criterion and direction alone.
C8_DirectiveLifecycle ==
    /\ sortBy = "cpu" /\ ~ascending
    /\ [][/\ (sortBy' # sortBy \/ ascending' # ascending) => SortKeyStep
          /\ (HandleTick \/ StatsHandled \/ HandleQuit
                \/ \E size \in WindowSizes : HandleResize(size)
                \/ \E key \in Keys \ SortKeys : HandleKey(key))
               => UNCHANGED << sortBy, ascending >>
         ]_vars

\* C8 witness: a directive other than the initial one is still in force
\* after a later message has been handled and a tick has issued a command
C8_Witness ==
    /\ sortBy = "pid" /\ ascending
    /\ stats.uptime = 3660
    /\ Len(inflight) = 2
    /\ pc = "quitting"

\* C9: when the message of a sampling command is handled, the stored stats
\* are the message: uptime, load average, per-core usage, memory and process
\* handles are equal to it, the ingested processes are those of the message
\* (reordered by the sort), and every row is made from a process of the
\* message; a message without processes leaves no row.
C9_WholesaleReplace ==
    [][\A i \in 1..MaxInFlight, o \in AllObservations :
        HandleStats(i, o) =>
          LET msg == updateStatsResult(o)
              new == { msg.processInfo[k] : k \in 1..Len(msg.processInfo) }
              kept == { stats'.processInfo[k] :
                          k \in 1..Len(stats'.processInfo) }
          IN  /\ stats'.uptime = msg.uptime
              /\ stats'.loadAvg = msg.loadAvg
              /\ stats'.cpuPercent = msg.cpuPercent
              /\ stats'.memStats = msg.memStats
              /\ stats'.processes = msg.processes
              /\ Len(stats'.processInfo) = Len(msg.processInfo)
              /\ kept = new
              /\ Len(rows') = Min(50, Len(msg.processInfo))
              /\ \A r \in 1..Len(rows') : \E p \in new : rows'[r] = MakeRow(p)
              /\ msg.processInfo = << >> => rows' = << >>
      ]_vars

\* C9 witness: a pass whose lookups all failed has replaced the stats, in a
\* run where a command issued by a tick was outstanding
C9_Witness ==
    /\ stats = EmptyStats /\ rows = << >>
    /\ Len(inflight) = 1 /\ inflight[1].overtaken

\* C10: handling a tick schedules one tick for the one handled and issues
\* one more sampling command, whatever the number outstanding.
C10_TickIssuesCommand ==
    [][HandleTick =>
          /\ ticks' = ticks /\ ticks' >= 1
          /\ Len(inflight') = Len(inflight) + 1
          /\ \A k \in 1..Len(inflight) : inflight'[k] = inflight[k]
      ]_vars

\* C10 witness: two sampling commands are outstanding at once
C10_Witness == Len(inflight) >= 2 /\ ticks = 1 /\ pc = "running"

\* C11: while sampling commands are outstanding and the loop has not ended,
\* every key and every window size can be handled and the tick can be
\* handled (below the bound of the model on outstanding commands), each with
\* its whole effect, before any message of a command arrives.
C11_LoopNotBlocked ==
    (Looping /\ Len(inflight) >= 1) =>
        /\ \A key \in SortKeys :
              ENABLED (/\ HandleKey(key)
                       /\ sortBy' = Criterion(key)
                       /\ ascending' = ~ascending
                       /\ inflight' = inflight)
        /\ \A key \in Keys \ SortKeys : ENABLED HandleKey(key)
        /\ \A size \in WindowSizes :
              ENABLED (/\ HandleResize(size)
                       /\ tableWidth' = size.Width - 4
                       /\ tableHeight' = size.Height - 12
                       /\ inflight' = inflight)
        /\ Len(inflight) < MaxInFlight =>
              ENABLED (/\ HandleTick
                       /\ ticks' = ticks
                       /\ Len(inflight') = Len(inflight) + 1)

\* C11 witness: a sort key, a window size and a tick have been handled while
\* the command issued at the start is still outstanding and nothing has
\* been sampled
C11_Witness ==
    /\ Len(inflight) = 2 /\ ~inflight[1].overtaken
    /\ stats = EmptyStats
    /\ sortBy = "pid" /\ ascending
    /\ tableWidth = 76
    /\ pc = "running"

\* C12 as claimed: once a quit key has been handled the loop has ended, so
\* the message of a sampling command outstanding then is never applied: the
\* stats and the rows stay as they are.
C12_QuitImmediate ==
    [][pc # "running" => UNCHANGED << stats, rows >>]_vars

\* C12, amended: handling q or ctrl+c changes nothing but issues the quit;
\* the loop ends only when the quit message is handled, and once it has
\* ended no message is applied, whatever is still outstanding.
C12_QuitFrame ==
    [][/\ \A key \in QuitKeys :
            HandleKey(key) =>
              /\ UNCHANGED << model, ticks, inflight >>
              /\ pc' = IF pc = "done" THEN "done" ELSE "quitting"
       /\ pc' = "done" => pc = "quitting"
       /\ pc = "done" => UNCHANGED vars
      ]_vars

\* C12 witness: the loop has ended with a sampling command outstanding and
\* rows on the table
C12_Witness == pc = "done" /\ Len(inflight) >= 1 /\ Len(rows) >= 2

\* the pid cells of the rows, in order
PidCells(rs) == [r \in 1..Len(rs) |-> rs[r][1]]

\* the processes of a pass that have no name
Unnamed(procs) == { k \in 1..Len(procs) : procs[k].name = << >> }

\* C13: a process without a name is dropped at ingestion: in every state no
\* ingested process and no row belongs to an unnamed process of the stored
\* pass, and the rows number the named processes (up to 50); the pass
\* pid1 cpu 10, pid2 cpu 90, pid3 unnamed, handled under cpu descending,
\* leaves the rows pid2, pid1.
C13_UnnamedNeverShown ==
    /\ [](/\ \A i \in 1..Len(stats.processInfo) :
                /\ stats.processInfo[i].Name # << >>
                /\ \A k \in Unnamed(stats.processes) :
                      stats.processInfo[i].PID # stats.processes[k].pid
          /\ \A r \in 1..Len(rows) :
                /\ rows[r][6] # << >>
                /\ \A k \in Unnamed(stats.processes) :
                      rows[r][1] # Itoa(stats.processes[k].pid)
          /\ Len(rows) = Min(50, Cardinality(Named(stats.processes))))
    /\ [][(/\ StatsHandled
           /\ stats'.processes = Trio.procs
           /\ sortBy' = "cpu" /\ ~ascending')
            => PidCells(rows') = << Itoa(2), Itoa(1) >>]_vars

\* C13 witness: the pass of the three processes is stored, derived under cpu
\* descending, and the table shows pid2 then pid1
C13_Witness ==
    /\ stats.processes = Trio.procs
    /\ Unnamed(stats.processes) # {}
    /\ sortBy = "cpu" /\ ~ascending
    /\ PidCells(rows) = << Itoa(2), Itoa(1) >>

\* C15: in every state the command cell of each row is the name of its
\* process when the name has at most 28 bytes, and otherwise its first 28
\* bytes followed by "..", 30 bytes in all.
C15_CommandTruncation ==
    \A r \in 1..Len(rows) :
        LET name == stats.processInfo[r].Name
            cell == rows[r][6]
        IN  /\ Shows(rows[r], stats.processInfo[r])
            /\ IF Len(name) > 28
               THEN /\ Len(cell) = 30
                    /\ \A k \in 1..28 : cell[k] = name[k]
                    /\ cell[29] = 46 /\ cell[30] = 46
               ELSE cell = name

\* C15 witness: the table shows a name of 29 bytes cut to 28 and "..",
\* next to a short name shown whole
C15_Witness ==
    /\ \E r \in 1..Len(rows) :
          Len(stats.processInfo[r].Name) = 29 /\ Len(rows[r][6]) = 30
    /\ \E r \in 1..Len(rows) : rows[r][6] = << 97, 98 >>

\* the user name the provider reported for the ingested process p
ReportedUser(p) ==
    LET k == CHOOSE k \in 1..Len(stats.processes) :
                 stats.processes[k].pid = p.PID
    IN  stats.processes[k].user

\* C16: in every state each ingested process holds its reported user name
\* when that has at most 8 bytes and otherwise its first 8 bytes, and the
\* user cell of its row is the same: never more than 8 bytes.
C16_UserLimit ==
    /\ \A i \in 1..Len(stats.processInfo) :
          LET user == ReportedUser(stats.processInfo[i])
              kept == stats.processInfo[i].User
          IN  /\ Len(kept) <= 8
              /\ IF Len(user) > 8
                 THEN Len(kept) = 8 /\ \A k \in 1..8 : kept[k] = user[k]
                 ELSE kept = user
    /\ \A r \in 1..Len(rows) :
          /\ rows[r][2] = stats.processInfo[r].User
          /\ Len(rows[r][2]) <= 8

\* C16 witness: a user name of 10 bytes is stored and shown as its first 8,
\* and rows derived under another criterion than the initial one show it
C16_Witness ==
    /\ \E r \in 1..Len(rows) :
          /\ Len(ReportedUser(stats.processInfo[r])) = 10
          /\ Len(rows[r][2]) = 8
    /\ sortBy = "name"

\* C17 as claimed: the message of a sampling command is never handled after
\* the message of a command issued later than it.
C17_NoRegression ==
    [][\A i \in 1..MaxInFlight, o \in AllObservations :
        HandleStats(i, o) => ~inflight[i].overtaken]_vars

\* C18: the rows left by handling a systemStats message are those derived
\* from the stored stats under the directive in force in that step,
\* whatever the directive was when the command was issued.
C18_DirectiveAtHandling ==
    [][StatsStep =>
        /\ rows' = deriveRows(sortBy, ascending, stats')
        /\ \A r \in 1..Len(rows') : Shows(rows'[r], stats'.processInfo[r])
        /\ Monotone(sortBy, ascending, stats'.processInfo,
                    Len(stats'.processInfo))
      ]_vars

\* C18 witness: the command issued at the start, under cpu descending, has
\* delivered its message after keys were pressed, and the rows follow pid
\* ascending, which differs from cpu descending on this pass
C18_Witness ==
    /\ inflight = << >> /\ ticks = 1 /\ pc = "running"
    /\ sortBy = "pid" /\ ascending
    /\ Len(rows) = 4
    /\ rows = deriveRows("pid", TRUE, stats)
    /\ rows # deriveRows("cpu", FALSE, stats)

\* C19: as long as the loop has not ended exactly one tick is pending.
C19_SingleTick == Looping => ticks = 1

\* C19 witness: ticks, messages of commands, keys and a window size have
\* been handled and one tick is pending
C19_Witness ==
    /\ ticks = 1
    /\ Len(inflight) = 2 /\ inflight[1].overtaken
    /\ sortBy = "memory"
    /\ tableWidth = -1
    /\ pc = "quitting"

\* C20: under the fair scheduling, unless a quit key is handled, the message
\* of the oldest outstanding sampling command is handled again and again:
\* every command issued gets its message applied, without end.
C20_RefreshForever ==
    \/ <>(pc # "running")
    \/ []<><<\E o \in AllObservations : HandleStats(1, o)>>_vars

\* C20 witness: the message of a command issued by a tick has been applied
\* while the command issued before it is still outstanding
C20_Witness ==
    /\ pc = "running"
    /\ stats.uptime = 3720
    /\ Len(inflight) = 2 /\ inflight[1].overtaken /\ ~inflight[2].overtaken

====
